---- MODULE Spec2Model ----
(***************************************************************************)
(* A model of pmd-dx-api: the list and detail handlers, the query layer    *)
(* with the four-worker fan-out of GetPokemon, and the request pipeline    *)
(* LogRequest -> CacheResponse -> FieldLimitingParams -> ResourceListParams*)
(* -> handler around the redis response cache.                             *)
(*                                                                         *)
(* Four specifications share the variables:                                *)
(*   SpecList    one list request through the parameter middlewares and    *)
(*               AbilityListHandler, over every raw query and table size   *)
(*   SpecLookup  one detail request: the handler and its detail lookup;    *)
(*               GetPokemon runs its four workers interleaved              *)
(*   Spec        the server: concurrent requests through the cache         *)
(*   SpecCall    one call of a list operation, of limitResultFields or of  *)
(*               FieldLimitingParams                                       *)
(*                                                                         *)
(* Strings that the code parses (query parameter values) are sequences of  *)
(* tokens: a decimal digit, a sign, a comma, or an opaque non-numeric word.*)
(***************************************************************************)
EXTENDS Integers, Sequences, FiniteSets, TLC

(***************************************************************************)
(* Bounds of the model.                                                    *)
(***************************************************************************)
\* rows of the table behind a list request range over 0..MaxCount
MaxCount == 4
\* positive raw page / per_page values range over 1..MaxRaw
MaxRaw == 3
\* the children of parent 1 of every resource table are 1..MaxChildren
MaxChildren == 2
\* the connections the server serves, one request each
MaxConnections == 2
\* the Fields of a FieldLimitingParams hold up to MaxFields names
MaxFields == 2

(***************************************************************************)
(* Program constants.                                                      *)
(***************************************************************************)
DefaultPerPage == 50
DefaultPage == 1
StatusOK == 200
StatusNotFound == 404
StatusInternalServerError == 500

\* db.SortType values
IDAsc == "id_asc"
IDDesc == "id_desc"
NameAsc == "name_asc"
NameDesc == "name_desc"

\* db.SearchType values
ID == "ID"
Name == "name"

\* errors are records; Nil is the nil error
Err(msg) == [kind |-> msg]
Nil == Err("nil")
\* the marker of a query parameter that the request does not carry
Absent == <<"<absent>">>

(***************************************************************************)
(* strconv.Atoi and fmt's %v of an int, on token sequences.                *)
(***************************************************************************)
Digits == <<"0", "1", "2", "3", "4", "5", "6", "7", "8", "9">>

IsDigit(c) == \E i \in 1..10 : Digits[i] = c

DigitVal(c) == (CHOOSE i \in 1..10 : Digits[i] = c) - 1

RECURSIVE DigitsVal(_)
DigitsVal(s) ==
    IF Len(s) = 0 THEN 0
    ELSE 10 * DigitsVal(SubSeq(s, 1, Len(s) - 1)) + DigitVal(s[Len(s)])

AllDigits(s) == \A i \in 1..Len(s) : IsDigit(s[i])

\* strconv.Atoi: an optional sign, then at least one digit and only digits.
Atoi(s) ==
    LET signed == Len(s) > 0 /\ s[1] \in {"+", "-"}
        body   == IF signed THEN Tail(s) ELSE s
    IN  IF Len(body) = 0 \/ ~AllDigits(body)
        THEN [err |-> Err("invalid syntax"), val |-> 0]
        ELSE [err |-> Nil,
              val |-> IF signed /\ s[1] = "-" THEN 0 - DigitsVal(body)
                      ELSE DigitsVal(body)]

RECURSIVE NatToTokens(_)
NatToTokens(n) ==
    IF n < 10 THEN <<Digits[n + 1]>>
    ELSE NatToTokens(n \div 10) \o <<Digits[(n % 10) + 1]>>

\* fmt.Sprintf("%v", n) for an int
Itoa(n) == IF n < 0 THEN <<"-">> \o NatToTokens(0 - n) ELSE NatToTokens(n)

\* Go's integer division and remainder truncate toward zero.
GoDiv(a, b) ==
    LET q == (IF a < 0 THEN 0 - a ELSE a) \div (IF b < 0 THEN 0 - b ELSE b)
    IN  IF (a < 0) = (b < 0) THEN q ELSE 0 - q

GoMod(a, b) == a - b * GoDiv(a, b)

(***************************************************************************)
(* The request URL: a path and the query parameters in their order.        *)
(* r.URL.String() is the path and the query again, so the URL record       *)
(* itself stands for that string.                                          *)
(***************************************************************************)
\* url.Values.Get: the first value of the key, "" when there is none
QueryGet(query, key) ==
    IF \E i \in 1..Len(query) : query[i].key = key
    THEN query[CHOOSE i \in 1..Len(query) :
                   /\ query[i].key = key
                   /\ \A j \in 1..(i - 1) : query[j].key # key].val
    ELSE <<>>

\* strings.Split(s, ","): the pieces between the commas, as strings
RECURSIVE JoinTokens(_)
JoinTokens(s) == IF Len(s) = 0 THEN "" ELSE Head(s) \o JoinTokens(Tail(s))

RECURSIVE SplitComma(_)
SplitComma(s) ==
    IF \E i \in 1..Len(s) : s[i] = ","
    THEN LET i == CHOOSE k \in 1..Len(s) :
                      s[k] = "," /\ \A j \in 1..(k - 1) : s[j] # ","
         IN  <<JoinTokens(SubSeq(s, 1, i - 1))>>
                 \o SplitComma(SubSeq(s, i + 1, Len(s)))
    ELSE <<JoinTokens(s)>>

(***************************************************************************)
(* middleware.ResourceListParams and middleware.FieldLimitingParams.       *)
(***************************************************************************)
SortTypes == {IDAsc, IDDesc, NameAsc, NameDesc}

ParseSort(query) ==
    LET sort == JoinTokens(QueryGet(query, "sort"))
    IN  IF sort \in SortTypes
        THEN [SortEnabled |-> TRUE, SortType |-> sort]
        ELSE [SortEnabled |-> FALSE, SortType |-> ""]

\* a per_page parsing that defaults only what is not a number
ParsePerPageKeepZero(query) ==
    LET a == Atoi(QueryGet(query, "per_page"))
    IN  IF a.err # Nil THEN DefaultPerPage ELSE a.val

ParsePerPage(query) ==
    LET a == Atoi(QueryGet(query, "per_page"))
    IN  IF a.err # Nil \/ a.val = 0 THEN DefaultPerPage ELSE a.val

ParsePage(query) ==
    LET a == Atoi(QueryGet(query, "page"))
    IN  IF a.err # Nil \/ a.val = 0 THEN DefaultPage ELSE a.val

ResourceListParams(query) ==
    [Sort |-> ParseSort(query),
     Pagination |-> [PerPage |-> ParsePerPage(query), Page |-> ParsePage(query)]]

FieldLimitingParams(query) ==
    LET fields == SplitComma(QueryGet(query, "fields"))
    IN  IF Len(fields) > 0 /\ fields[1] # ""
        THEN [FieldLimitingEnabled |-> TRUE, Fields |-> fields]
        ELSE [FieldLimitingEnabled |-> FALSE, Fields |-> <<>>]

(***************************************************************************)
(* db: buildQuery, getCount and GetAbilityList over the ability table.     *)
(* The table holds the rows 1..n; AbilityNames gives each row's name and   *)
(* Collation the order of the names under ORDER BY ability_name.           *)
(***************************************************************************)
AbilityNames == <<"Stench", "Drizzle", "Blaze", "Torrent", "Overgrow", "Static", "Guts", "Levitate">>
Collation == <<"Blaze", "Drizzle", "Guts", "Levitate", "Overgrow", "Static", "Stench", "Torrent">>

NameRank(name) == CHOOSE i \in 1..Len(Collation) : Collation[i] = name

AbilityTable(n) == [i \in 1..n |-> [ID |-> i, Name |-> AbilityNames[i]]]

\* the name columns of the six resource tables
NameColumns ==
    {"ability_name", "camp_name", "dungeon_name", "move_name", "pokemon_name",
     "type_name"}

\* a query builder that knows only the name_desc sort type
buildQueryNameDescOnly(query, sort, idColumn, nameColumn, pagination) ==
    [query |-> query,
     orderBy |-> IF sort.SortEnabled /\ sort.SortType = NameDesc
                 THEN [column |-> nameColumn, direction |-> "DESC"]
                 ELSE [column |-> idColumn, direction |-> "ASC"],
     limit |-> pagination.PerPage,
     offset |-> (pagination.Page - 1) * pagination.PerPage]

buildQuery(query, sort, idColumn, nameColumn, pagination) ==
    LET sortQuery ==
            IF sort.SortEnabled /\ sort.SortType = IDDesc
                THEN [column |-> idColumn, direction |-> "DESC"]
            ELSE IF sort.SortEnabled /\ sort.SortType = NameAsc
                THEN [column |-> nameColumn, direction |-> "ASC"]
            ELSE IF sort.SortEnabled /\ sort.SortType = NameDesc
                THEN [column |-> nameColumn, direction |-> "DESC"]
            ELSE [column |-> idColumn, direction |-> "ASC"]
    IN  [query |-> query, orderBy |-> sortQuery,
         limit |-> pagination.PerPage,
         offset |-> (pagination.Page - 1) * pagination.PerPage]

\* the key a row is ordered by, as a number
OrderKey(row, q) ==
    LET k == IF q.orderBy.column \in NameColumns THEN NameRank(row.Name) ELSE row.ID
    IN  IF q.orderBy.direction = "DESC" THEN 0 - k ELSE k

RECURSIVE Ordered(_, _)
Ordered(rowSet, q) ==
    IF rowSet = {} THEN <<>>
    ELSE LET first == CHOOSE x \in rowSet :
                          \A o \in rowSet : OrderKey(x, q) <= OrderKey(o, q)
         IN  <<first>> \o Ordered(rowSet \ {first}, q)

\* dbpool.Query of a list query: the database rejects a negative LIMIT or
\* OFFSET, and queryOK is whether the connection served the query at all.
dbpoolQueryList(q, table, queryOK) ==
    IF ~queryOK THEN [err |-> Err("query failed"), rows |-> <<>>]
    ELSE IF q.limit < 0 \/ q.offset < 0
        THEN [err |-> Err("LIMIT must not be negative"), rows |-> <<>>]
    ELSE LET all == Ordered({table[i] : i \in DOMAIN table}, q)
             last == IF q.offset + q.limit < Len(all) THEN q.offset + q.limit
                     ELSE Len(all)
         IN  [err |-> Nil, rows |-> SubSeq(all, q.offset + 1, last)]

getCount(table, countOK) ==
    IF countOK THEN [count |-> Len(table), err |-> Nil]
    ELSE [count |-> 0, err |-> Err("count failed")]

GetAbilityList(sort, pagination, table, queryOK, countOK) ==
    LET queryString == buildQuery("SELECT ability_ID, ability_name FROM ability",
                                  sort, "ability_ID", "ability_name", pagination)
        res == dbpoolQueryList(queryString, table, queryOK)
        cnt == getCount(table, countOK)
    IN  IF res.err # Nil THEN [count |-> 0, resources |-> <<>>, err |-> res.err]
        ELSE IF cnt.err # Nil THEN [count |-> 0, resources |-> <<>>, err |-> cnt.err]
        ELSE [count |-> cnt.count, resources |-> res.rows, err |-> Nil]

\* the six list operations: the table the rows are selected from, its id and
\* name column, and the table handed to getCount
ListOperations ==
    {"GetAbilityList", "GetCampList", "GetDungeonList", "GetMoveList",
     "GetPokemonList", "GetPokemonTypeList"}

Tables == {"ability", "camp", "dungeon", "attack_move", "pokemon", "pokemon_type"}

ListSource ==
    [GetAbilityList |->
        [select |-> "SELECT ability_ID, ability_name FROM ability",
         from |-> "ability", idColumn |-> "ability_ID",
         nameColumn |-> "ability_name", count |-> "ability"],
     GetCampList |->
        [select |-> "SELECT camp_ID, camp_name FROM camp",
         from |-> "camp", idColumn |-> "camp_ID",
         nameColumn |-> "camp_name", count |-> "camp"],
     GetDungeonList |->
        [select |-> "SELECT dungeon_ID, dungeon_name FROM dungeon",
         from |-> "dungeon", idColumn |-> "dungeon_ID",
         nameColumn |-> "dungeon_name", count |-> "dungeon"],
     GetMoveList |->
        [select |-> "SELECT move_ID, move_name FROM attack_move",
         from |-> "attack_move", idColumn |-> "move_ID",
         nameColumn |-> "move_name", count |-> "attack_move"],
     GetPokemonList |->
        [select |-> "SELECT dex_number, pokemon_name FROM pokemon",
         from |-> "pokemon", idColumn |-> "dex_number",
         nameColumn |-> "pokemon_name", count |-> "pokemon"],
     GetPokemonTypeList |->
        [select |-> "SELECT * FROM pokemon_type",
         from |-> "pokemon_type", idColumn |-> "type_ID",
         nameColumn |-> "type_name", count |-> "dungeon"]]

\* a list operation over the database db, a function from Tables to rows
GetList(op, sort, pagination, db, queryOK, countOK) ==
    LET src == ListSource[op]
        queryString == buildQuery(src.select, sort, src.idColumn, src.nameColumn,
                                  pagination)
        res == dbpoolQueryList(queryString, db[src.from], queryOK)
        cnt == getCount(db[src.count], countOK)
    IN  IF res.err # Nil THEN [count |-> 0, resources |-> <<>>, err |-> res.err]
        ELSE IF cnt.err # Nil THEN [count |-> 0, resources |-> <<>>, err |-> cnt.err]
        ELSE [count |-> cnt.count, resources |-> res.rows, err |-> Nil]

GetCampList(sort, pagination, db, queryOK, countOK) ==
    GetList("GetCampList", sort, pagination, db, queryOK, countOK)
GetDungeonList(sort, pagination, db, queryOK, countOK) ==
    GetList("GetDungeonList", sort, pagination, db, queryOK, countOK)
GetMoveList(sort, pagination, db, queryOK, countOK) ==
    GetList("GetMoveList", sort, pagination, db, queryOK, countOK)
GetPokemonList(sort, pagination, db, queryOK, countOK) ==
    GetList("GetPokemonList", sort, pagination, db, queryOK, countOK)
GetPokemonTypeList(sort, pagination, db, queryOK, countOK) ==
    GetList("GetPokemonTypeList", sort, pagination, db, queryOK, countOK)

\* the list operation op
ListOperation(op, sort, pagination, db, queryOK, countOK) ==
    CASE op = "GetAbilityList" ->
            GetAbilityList(sort, pagination, db["ability"], queryOK, countOK)
      [] op = "GetCampList" -> GetCampList(sort, pagination, db, queryOK, countOK)
      [] op = "GetDungeonList" -> GetDungeonList(sort, pagination, db, queryOK, countOK)
      [] op = "GetMoveList" -> GetMoveList(sort, pagination, db, queryOK, countOK)
      [] op = "GetPokemonList" -> GetPokemonList(sort, pagination, db, queryOK, countOK)
      [] op = "GetPokemonTypeList" ->
            GetPokemonTypeList(sort, pagination, db, queryOK, countOK)

(***************************************************************************)
(* handler: the pieces shared by the handlers.                             *)
(***************************************************************************)
NoResponse == [status |-> 0]
NoHeader == [absent |-> TRUE]

GenericMessage == "Something went wrong on our side. Please contact the administrator."

\* http.Error(w, msg, code)
httpError(msg, code) ==
    [status |-> code,
     header |-> [Link |-> NoHeader, ContentType |-> "text/plain; charset=utf-8"],
     body |-> <<[key |-> "text", value |-> <<[text |-> msg]>>]>>]

\* an error answer that tells the client what went wrong
ErrorAndLog500Verbose(err) ==
    [w |-> httpError(err.kind, StatusInternalServerError), logged |-> err]

\* ErrorAndLog500: the generic message to the client, the error to the log
ErrorAndLog500(err) ==
    [w |-> httpError(GenericMessage, StatusInternalServerError), logged |-> err]

\* models.NamedResourceID.ToNamedResourceURL
ToNamedResourceURL(n, instanceURL, resourceTypeName) ==
    [name |-> n.Name,
     url |-> instanceURL \o "/v1/" \o resourceTypeName \o "/" \o ToString(n.ID)]

transformToURLResources(resources, instanceURL, resourceTypeName) ==
    [i \in 1..Len(resources) |->
        ToNamedResourceURL(resources[i], instanceURL, resourceTypeName)]

\* orderedmap.Delete: the other keys keep their order
Delete(responseJSON, k) == SelectSeq(responseJSON, LAMBDA e : e.key # k)

RECURSIVE DeleteAll(_, _)
DeleteAll(responseJSON, keys) ==
    IF keys = {} THEN responseJSON
    ELSE LET k == CHOOSE x \in keys : TRUE
         IN  DeleteAll(Delete(responseJSON, k), keys \ {k})

\* a field limiting that builds the object in the order of params.Fields
limitResultFieldsInFieldOrder(responseJSON, params) ==
    IF ~params.FieldLimitingEnabled THEN responseJSON
    ELSE LET picked(f) == SelectSeq(responseJSON, LAMBDA e : e.key = params.Fields[f])
             pick[f \in 0..Len(params.Fields)] ==
                 IF f = 0 THEN <<>>
                 ELSE IF \E g \in 1..(f - 1) : params.Fields[g] = params.Fields[f]
                 THEN pick[f - 1]
                 ELSE pick[f - 1] \o picked(f)
         IN  pick[Len(params.Fields)]

limitResultFields(responseJSON, params) ==
    IF ~params.FieldLimitingEnabled THEN responseJSON
    ELSE LET deleteKeys ==
                 {responseJSON[i].key : i \in
                     {j \in 1..Len(responseJSON) :
                         ~\E f \in 1..Len(params.Fields) :
                             params.Fields[f] = responseJSON[j].key}}
         IN  DeleteAll(responseJSON, deleteKeys)

(***************************************************************************)
(* handler.answerWithListJSON: the body and the Link header.               *)
(* requestURL is r.Host + r.URL.String(), kept as host, path and query.    *)
(***************************************************************************)
NullURL == [null |-> TRUE]

\* regexp `.+[?&]page=\d*(&.+)?` finds a match: some parameter is page=...
MatchPageParam(requestURL) ==
    \E i \in 1..Len(requestURL.query) : requestURL.query[i].key = "page"

\* regexp `.+\?.+` finds a match: a question mark with something after it
MatchQuery(requestURL) == Len(requestURL.query) > 0

RECURSIVE StripDigits(_)
StripDigits(val) ==
    IF Len(val) > 0 /\ IsDigit(Head(val)) THEN StripDigits(Tail(val)) ELSE val

\* re.ReplaceAllString(requestURL, "${1}page=<n>") for `([?&])page=\d*`
ReplacePage(requestURL, n) ==
    [requestURL EXCEPT !.query =
        [i \in 1..Len(requestURL.query) |->
            IF requestURL.query[i].key = "page"
            THEN [key |-> "page",
                  val |-> Itoa(n) \o StripDigits(requestURL.query[i].val)]
            ELSE requestURL.query[i]]]

\* fmt.Sprintf("%v&page=%v") or fmt.Sprintf("%v?page=%v")
AppendPage(requestURL, n) ==
    [requestURL EXCEPT !.query = Append(@, [key |-> "page", val |-> Itoa(n)])]

LastPageNoAdjust(count, perPage) == GoDiv(count, perPage) + 1

LastPage(count, perPage) ==
    LET lastPage == GoDiv(count, perPage) + 1
    IN  IF GoMod(count, perPage) = 0 THEN lastPage - 1 ELSE lastPage

NullLinksOnlyFirstPage(page, lastPage, links) ==
    IF page = 1 THEN [links EXCEPT !.previous = NullURL] ELSE links

\* "Set null values when links should not be provided"
NullLinks(page, lastPage, links) ==
    LET l1 == IF page = 1 THEN [links EXCEPT !.previous = NullURL] ELSE links
    IN  IF page = lastPage THEN [l1 EXCEPT !.next = NullURL]
        ELSE IF page > lastPage
            THEN [l1 EXCEPT !.next = NullURL, !.previous = NullURL]
        ELSE l1

LinkHeader(count, pagination, r) ==
    LET lastPage == LastPage(count, pagination.PerPage)
        nextPage == pagination.Page + 1
        previousPage == pagination.Page - 1
        url0 == [host |-> r.Host, path |-> r.URL.path, query |-> r.URL.query]
        requestURL == IF MatchPageParam(url0) THEN url0
                      ELSE AppendPage(url0, pagination.Page)
    IN  NullLinks(pagination.Page, lastPage,
                  [next |-> ReplacePage(requestURL, nextPage),
                   previous |-> ReplacePage(requestURL, previousPage),
                   last |-> ReplacePage(requestURL, lastPage)])

answerWithListJSON(count, resources, resourceTypeName, pagination, r, ctx) ==
    LET resourcesWithURL == transformToURLResources(resources, r.Host, resourceTypeName)
        responseJSON == <<[key |-> "count", value |-> <<[n |-> count]>>],
                          [key |-> "results", value |-> resourcesWithURL]>>
    IN  IF ~ctx.fieldLimitOK
        THEN ErrorAndLog500(Err("missing FieldLimitingParams"))
        ELSE [w |-> [status |-> StatusOK,
                     header |-> [Link |-> LinkHeader(count, pagination, r),
                                 ContentType |-> "application/json"],
                     body |-> limitResultFields(responseJSON, ctx.fieldLimitParams)],
              logged |-> Nil]

\* handler.AbilityListHandler
AbilityListHandler(r, ctx, table, queryOK, countOK) ==
    IF ~ctx.listOK THEN ErrorAndLog500(Err("missing ResourceListParams"))
    ELSE LET res == GetAbilityList(ctx.listParams.Sort, ctx.listParams.Pagination,
                                   table, queryOK, countOK)
         IN  IF res.err # Nil THEN ErrorAndLog500(res.err)
             ELSE answerWithListJSON(res.count, res.resources, "abilities",
                                     ctx.listParams.Pagination, r, ctx)

(***************************************************************************)
(* db: the detail lookups.  Every resource table holds the parents 1, 2    *)
(* and 3; parent 1 has the children 1..MaxChildren, parent 3 has one child *)
(* and parent 2 has none, so its LEFT JOIN yields one row with an all-null *)
(* child group.  A parent group is the parent's key and name plus, for a   *)
(* move, its type and, for a pokemon, its camp (extra).  The columns of a  *)
(* parent group hold no NULL that its Scan destination cannot take.        *)
(***************************************************************************)
Resources == {"ability", "camp", "dungeon", "move", "pokemon", "type"}

ParentNames ==
    [ability |-> <<"Overgrow", "Blaze", "Torrent">>,
     camp |-> <<"Beau Plains", "Mist-Rise Forest", "Sky-Blue Plains">>,
     dungeon |-> <<"Tiny Woods", "Thunderwave Cave", "Mt. Steel">>,
     move |-> <<"Tackle", "Growl", "Ember">>,
     pokemon |-> <<"Bulbasaur", "Ivysaur", "Venusaur">>,
     type |-> <<"Grass", "Fire", "Water">>]

ChildNames == <<"Oddish", "Gloom", "Vileplume", "Paras", "Parasect">>

ZeroNamed == [ID |-> 0, Name |-> ""]
NullGroup == [null |-> TRUE]

\* the parents the WHERE clause of the base query selects
Matching(t, in) ==
    {i \in 1..3 : IF in.SearchType = ID THEN i = in.ID
                  ELSE in.SearchType = Name /\ ParentNames[t][i] = in.Name}

ChildrenOf(parent) ==
    IF parent = 1 THEN [k \in 1..MaxChildren |-> [ID |-> k, Name |-> ChildNames[k]]]
    ELSE IF parent = 3 THEN <<[ID |-> 1, Name |-> ChildNames[1]]>>
    ELSE <<>>

ExtraOf(t, parent) ==
    IF t \in {"move", "pokemon"} THEN [ID |-> 10 + parent, Name |-> "Extra"]
    ELSE ZeroNamed

\* the rows of "parent LEFT JOIN children ORDER BY child key"
BaseRows(t, in) ==
    IF Matching(t, in) = {} THEN <<>>
    ELSE LET i == CHOOSE x \in Matching(t, in) : TRUE
             parent == [ID |-> i, Name |-> ParentNames[t][i]]
             children == ChildrenOf(i)
         IN  IF Len(children) = 0
             THEN <<[parent |-> parent, extra |-> ExtraOf(t, i), child |-> NullGroup]>>
             ELSE [k \in 1..Len(children) |->
                      [parent |-> parent, extra |-> ExtraOf(t, i),
                       child |-> children[k]]]

\* the rows of an INNER JOIN of the pokemon's types, abilities or moves:
\* every existing pokemon has at least one of each
ChildRows(in) ==
    IF Matching("pokemon", in) = {} THEN <<>>
    ELSE LET i == CHOOSE x \in Matching("pokemon", in) : TRUE
         IN  IF i = 1 THEN ChildrenOf(1) ELSE <<[ID |-> 1, Name |-> ChildNames[1]]>>

\* dbpool.Query: the Rows and the error; a failed query gives Rows without
\* rows that carry the error
dbpoolQuery(resultRows, queryOK, e) ==
    IF queryOK THEN [rows |-> [open |-> TRUE, closed |-> FALSE, err |-> Nil,
                              data |-> resultRows],
                     err |-> Nil]
    ELSE [rows |-> [open |-> FALSE, closed |-> FALSE, err |-> e, data |-> <<>>],
          err |-> e]

NilRows == [open |-> FALSE, closed |-> FALSE, err |-> Nil, data |-> <<>>]

\* rows.Close(): the result set gives its connection back to the pool
Close(r) == [r EXCEPT !.closed = TRUE]

\* rows.Scan of a parent-and-child row: the columns are assigned in order
\* and a NULL child column stops the scan with an error, the child zero
Scan(row) ==
    [parent |-> row.parent, extra |-> row.extra,
     child |-> IF row.child = NullGroup THEN ZeroNamed ELSE row.child,
     err |-> IF row.child = NullGroup THEN Err("cannot assign NULL") ELSE Nil]

\* rows.Scan when rows.Next() found no row
ScanNoRow ==
    [parent |-> ZeroNamed, extra |-> ZeroNamed, child |-> ZeroNamed,
     err |-> Err("number of field descriptions must equal number of destinations")]

ResourceNotFoundError(t, in) ==
    [kind |-> "ResourceNotFoundError", ResourceType |-> t,
     SearchType |-> in.SearchType, ID |-> in.ID, Name |-> in.Name]

\* the decoding without its "no entry was found" check: a zero-valued parent
\* is returned with a nil error
DecodeParentRowsUnchecked(t, in, data) ==
    LET first == IF Len(data) > 0 THEN Scan(data[1]) ELSE ScanNoRow
        firstChildren == IF first.child.ID # 0 THEN <<first.child>> ELSE <<>>
        others == IF first.err # Nil \/ Len(data) = 0 THEN <<>> ELSE Tail(data)
        scans == [k \in 1..Len(others) |-> Scan(others[k])]
        failed == {k \in 1..Len(others) : scans[k].err # Nil}
    IN  IF failed # {}
        THEN [parent |-> first.parent, extra |-> first.extra, children |-> <<>>,
              err |-> scans[CHOOSE k \in failed : \A j \in failed : k <= j].err]
        ELSE [parent |-> first.parent, extra |-> first.extra,
              children |-> firstChildren \o [k \in 1..Len(others) |-> scans[k].child],
              err |-> Nil]

\* the decoding that takes only the parent from the first row
DecodeParentRowsSkipFirstChild(t, in, data) ==
    LET first == IF Len(data) > 0 THEN Scan(data[1]) ELSE ScanNoRow
        others == IF first.err # Nil \/ Len(data) = 0 THEN <<>> ELSE Tail(data)
        scans == [k \in 1..Len(others) |-> Scan(others[k])]
    IN  IF first.parent.ID = 0 /\ in.SearchType \in {ID, Name}
        THEN [parent |-> first.parent, extra |-> first.extra, children |-> <<>>,
              err |-> ResourceNotFoundError(t, in)]
        ELSE [parent |-> first.parent, extra |-> first.extra,
              children |-> [k \in 1..Len(others) |-> scans[k].child],
              err |-> Nil]

\* "Read the first row outside of the loop", "Add all other ... to the
\* slice", "If the ...ID is zero, no entry was found"
DecodeParentRows(t, in, data) ==
    LET first == IF Len(data) > 0 THEN Scan(data[1]) ELSE ScanNoRow
        firstChildren == IF first.child.ID # 0 THEN <<first.child>> ELSE <<>>
        \* a failed Scan closes the Rows: rows.Next() then finds nothing
        others == IF first.err # Nil \/ Len(data) = 0 THEN <<>> ELSE Tail(data)
        scans == [k \in 1..Len(others) |-> Scan(others[k])]
        failed == {k \in 1..Len(others) : scans[k].err # Nil}
    IN  IF failed # {}
        THEN [parent |-> first.parent, extra |-> first.extra, children |-> <<>>,
              err |-> scans[CHOOSE k \in failed : \A j \in failed : k <= j].err]
        ELSE IF first.parent.ID = 0 /\ in.SearchType \in {ID, Name}
        THEN [parent |-> first.parent, extra |-> first.extra, children |-> <<>>,
              err |-> ResourceNotFoundError(t, in)]
        ELSE [parent |-> first.parent, extra |-> first.extra,
              children |-> firstChildren \o [k \in 1..Len(others) |-> scans[k].child],
              err |-> Nil]

QueryError(i) == [kind |-> "query failed", query |-> i]

\* the single-query lookups: the query by ID or by name, then the decoding;
\* queryOK is whether the database served the query
GetDetail(t, in, queryOK) ==
    IF in.SearchType \notin {ID, Name}
    THEN [rows |-> NilRows, parent |-> ZeroNamed, extra |-> ZeroNamed,
          children |-> <<>>, err |-> Err("illegal search type")]
    ELSE LET q == dbpoolQuery(BaseRows(t, in), queryOK, QueryError(1))
         IN  IF q.err # Nil
             THEN [rows |-> q.rows, parent |-> ZeroNamed, extra |-> ZeroNamed,
                   children |-> <<>>, err |-> q.err]
             ELSE \* defer rows.Close()
                  [rows |-> Close(q.rows)] @@ DecodeParentRows(t, in, q.rows.data)

GetAbility(in, queryOK) == GetDetail("ability", in, queryOK)
GetCamp(in, queryOK) == GetDetail("camp", in, queryOK)
GetDungeon(in, queryOK) == GetDetail("dungeon", in, queryOK)
GetMove(in, queryOK) == GetDetail("move", in, queryOK)
GetPokemonType(in, queryOK) == GetDetail("type", in, queryOK)

\* GetPokemon after errs.Wait() returned nil: "Read query 1" to the return
GetPokemonDecode(in, rs) ==
    LET base == DecodeParentRows("pokemon", in, rs[1].data)
        failure(e) == [pokemon |-> base.parent, camp |-> base.extra,
                       abilities |-> <<>>, dungeons |-> <<>>, moves |-> <<>>,
                       types |-> <<>>, err |-> e]
    IN  IF base.err # Nil THEN failure(base.err)
        ELSE [pokemon |-> base.parent, camp |-> base.extra,
              abilities |-> rs[3].data, dungeons |-> base.children,
              moves |-> rs[4].data, types |-> rs[2].data, err |-> Nil]

\* GetPokemon when errs.Wait() returned an error
GetPokemonFailed(e) ==
    [pokemon |-> ZeroNamed, camp |-> ZeroNamed, abilities |-> <<>>,
     dungeons |-> <<>>, moves |-> <<>>, types |-> <<>>, err |-> e]

\* the result rows of sub-query i of GetPokemon
SubQueryRows(i, in) == IF i = 1 THEN BaseRows("pokemon", in) ELSE ChildRows(in)

\* errgroup.Group.Go's errOnce: the first non-nil error returned is kept
ErrOnce(kept, returned) == IF returned # Nil /\ kept = Nil THEN returned ELSE kept

(***************************************************************************)
(* handler: the detail handler of /v1/abilities/:searcharg.                *)
(***************************************************************************)
\* strings.Title(strings.ToLower(arg)) of the words a client sends
TitleOfLower ==
    [blaze |-> "Blaze", BLAZE |-> "Blaze", missingno |-> "Missingno"]

\* handler.generateSearchInput
generateSearchInput(arg) ==
    LET conv == Atoi(arg)
    IN  IF conv.err = Nil
        THEN [SearchType |-> ID, ID |-> conv.val, Name |-> ""]
        ELSE [SearchType |-> Name, ID |-> 0, Name |-> TitleOfLower[arg[1]]]

\* db.ResourceNotFoundError.Error
ErrorString(e) ==
    IF e.SearchType = ID
    THEN "resource of type '" \o e.ResourceType \o "' with " \o e.SearchType
            \o " '" \o ToString(e.ID) \o "' not found"
    ELSE IF e.SearchType = Name
    THEN "resource of type '" \o e.ResourceType \o "' with " \o e.SearchType
            \o " '" \o e.Name \o "' not found"
    ELSE "resource not found"

\* handler.AbilitySearchHandler
AbilitySearchHandler(r, ctx, searcharg, queryOK) ==
    IF ~ctx.fieldLimitOK
    THEN ErrorAndLog500(Err("missing FieldLimitingParams"))
    ELSE LET res == GetAbility(generateSearchInput(searcharg), queryOK)
             pokemonWithURL == transformToURLResources(res.children, r.Host, "pokemon")
             responseJSON ==
                 <<[key |-> "id", value |-> <<[n |-> res.parent.ID]>>],
                   [key |-> "name", value |-> <<[text |-> res.parent.Name]>>],
                   [key |-> "description",
                    value |-> <<[text |-> "description of " \o res.parent.Name]>>],
                   [key |-> "pokemon", value |-> pokemonWithURL]>>
         IN  IF res.err # Nil
             THEN IF res.err.kind = "ResourceNotFoundError"
                  THEN [w |-> httpError(ErrorString(res.err), StatusNotFound),
                        logged |-> Nil]
                  ELSE ErrorAndLog500(res.err)
             ELSE [w |-> [status |-> StatusOK,
                          header |-> [Link |-> NoHeader,
                                      ContentType |-> "application/json"],
                          body |-> limitResultFields(responseJSON, ctx.fieldLimitParams)],
                   logged |-> Nil]

(***************************************************************************)
(* handler: the six detail handlers from the point where their lookup      *)
(* returned.  Of a parent's scalar attributes the response keeps the key   *)
(* and a text that names the parent; of the structs that wrap a reference  *)
(* (DungeonPokemonURL, PokemonMoveURL, ...) it keeps the reference.  The   *)
(* values the handlers marshal are ints, strings, bools, NullInt64 and     *)
(* slices of structs of these, for which json.Marshal returns no error.    *)
(***************************************************************************)
Attr(key, parent) ==
    [key |-> key, value |-> <<[text |-> key \o " of " \o parent.Name]>>]

IdAndName(parent) ==
    <<[key |-> "id", value |-> <<[n |-> parent.ID]>>],
      [key |-> "name", value |-> <<[text |-> parent.Name]>>]>>

ToDungeonPokemonURL(d, instanceURL) ==
    [Pokemon |-> ToNamedResourceURL(d, instanceURL, "pokemon")]

ToMovePokemonURL(m, instanceURL) ==
    [Pokemon |-> ToNamedResourceURL(m, instanceURL, "pokemon")]

ToPokemonDungeonURL(d, instanceURL) ==
    [Dungeon |-> ToNamedResourceURL(d, instanceURL, "dungeons")]

ToPokemonMoveURL(m, instanceURL) ==
    [Move |-> ToNamedResourceURL(m, instanceURL, "moves")]

ToTypeInteractionURL(i, instanceURL) ==
    [Defender |-> ToNamedResourceURL(i, instanceURL, "types")]

\* the responseJSON of AbilitySearchHandler, CampSearchHandler,
\* DungeonSearchHandler, MoveSearchHandler, PokemonSearchHandler and
\* PokemonTypeSearchHandler, in the order of their Set calls
DetailResponseJSON(t, res, instanceURL) ==
    CASE t = "ability" ->
            IdAndName(res.parent) \o
            <<Attr("description", res.parent),
              [key |-> "pokemon",
               value |-> transformToURLResources(res.children, instanceURL, "pokemon")]>>
      [] t = "camp" ->
            IdAndName(res.parent) \o
            <<Attr("description", res.parent), Attr("unlockType", res.parent),
              Attr("cost", res.parent),
              [key |-> "pokemon",
               value |-> transformToURLResources(res.children, instanceURL, "pokemon")]>>
      [] t = "dungeon" ->
            IdAndName(res.parent) \o
            <<Attr("levels", res.parent), Attr("startLevel", res.parent),
              Attr("teamSize", res.parent), Attr("itemsAllowed", res.parent),
              Attr("pokemonJoining", res.parent), Attr("mapVisible", res.parent),
              [key |-> "pokemon",
               value |-> [k \in 1..Len(res.children) |->
                             ToDungeonPokemonURL(res.children[k], instanceURL)]]>>
      [] t = "move" ->
            IdAndName(res.parent) \o
            <<Attr("category", res.parent), Attr("range", res.parent),
              Attr("target", res.parent), Attr("initialPP", res.parent),
              Attr("initialPower", res.parent), Attr("accuracy", res.parent),
              Attr("description", res.parent),
              [key |-> "type",
               value |-> <<ToNamedResourceURL(res.extra, instanceURL, "moves")>>],
              [key |-> "pokemon",
               value |-> [k \in 1..Len(res.children) |->
                             ToMovePokemonURL(res.children[k], instanceURL)]]>>
      [] t = "pokemon" ->
            IdAndName(res.pokemon) \o
            <<Attr("classification", res.pokemon), Attr("evolutionStage", res.pokemon),
              Attr("evolveCondition", res.pokemon), Attr("evolveLevel", res.pokemon),
              Attr("evolveCrystals", res.pokemon),
              [key |-> "camp",
               value |-> <<ToNamedResourceURL(res.camp, instanceURL, "camps")>>],
              [key |-> "abilities",
               value |-> transformToURLResources(res.abilities, instanceURL, "abilities")],
              [key |-> "dungeons",
               value |-> [k \in 1..Len(res.dungeons) |->
                             ToPokemonDungeonURL(res.dungeons[k], instanceURL)]],
              [key |-> "moves",
               value |-> [k \in 1..Len(res.moves) |->
                             ToPokemonMoveURL(res.moves[k], instanceURL)]],
              [key |-> "types",
               value |-> transformToURLResources(res.types, instanceURL, "types")]>>
      [] t = "type" ->
            IdAndName(res.parent) \o
            <<[key |-> "interactions",
               value |-> [k \in 1..Len(res.children) |->
                             ToTypeInteractionURL(res.children[k], instanceURL)]]>>

\* a detail handler whose context lacks the FieldLimitingParams
MissingFieldLimitingParams == ErrorAndLog500(Err("missing FieldLimitingParams"))

\* a detail handler that answers every error of the lookup alike
AnswerDetailEveryErrorAlike(t, res, r, ctx) ==
    IF res.err # Nil THEN ErrorAndLog500(res.err)
    ELSE [w |-> [status |-> StatusOK,
                 header |-> [Link |-> NoHeader, ContentType |-> "application/json"],
                 body |-> limitResultFields(DetailResponseJSON(t, res, r.Host),
                                            ctx.fieldLimitParams)],
          logged |-> Nil]

\* a detail handler after its lookup returned res: "Check for errors",
\* "Build the response JSON", "Limit the fields", "Write the response"
AnswerDetail(t, res, r, ctx) ==
    IF res.err # Nil
    THEN IF res.err.kind = "ResourceNotFoundError"
         THEN [w |-> httpError(ErrorString(res.err), StatusNotFound), logged |-> Nil]
         ELSE ErrorAndLog500(res.err)
    ELSE [w |-> [status |-> StatusOK,
                 header |-> [Link |-> NoHeader, ContentType |-> "application/json"],
                 body |-> limitResultFields(DetailResponseJSON(t, res, r.Host),
                                            ctx.fieldLimitParams)],
          logged |-> Nil]

(***************************************************************************)
(* cache: the redis hash per URL, cache.GetCachedResponse,                 *)
(* cache.StoreResponse and cache.CacheResponseRecorder.                    *)
(***************************************************************************)
NilClient == [client |-> "nil"]
Connected == [client |-> "connected"]

\* gob encoding of an http.Header, and its decoding
GobEncode(header) == <<[gob |-> header]>>
GobDecode(bytes) ==
    IF Len(bytes) = 0 THEN [header |-> NoHeader, err |-> Err("EOF")]
    ELSE [header |-> bytes[1].gob, err |-> Nil]

\* a Write that hands on nothing of an empty result list
BytesOfNonEmpty(body) ==
    <<[written |-> SelectSeq(body, LAMBDA e : Len(e.value) > 0)]>>

\* the bytes handed to Write, and the body they carry
BytesOf(body) == <<[written |-> body]>>
BodyOf(bytes) == IF Len(bytes) = 0 THEN <<>> ELSE bytes[1].written

\* HMGET of a key that has no hash: both fields are empty
NoHash == [HeaderBytes |-> <<>>, Json |-> <<>>]

CacheMissError(url) == [kind |-> "CacheMissError", url |-> url]

\* cache.GetCachedResponse; redisOK is whether redis answered the HMGET
GetCachedResponse(url, client, db, redisOK) ==
    IF client = NilClient
    THEN [header |-> NoHeader, json |-> <<>>,
          err |-> Err("redis connection not initialized")]
    ELSE IF ~redisOK
    THEN [header |-> NoHeader, json |-> <<>>, err |-> Err("redis: no answer")]
    ELSE LET result == db[url]
             decoded == GobDecode(result.HeaderBytes)
         IN  IF Len(result.HeaderBytes) = 0 /\ Len(result.Json) = 0
             THEN [header |-> NoHeader, json |-> <<>>, err |-> CacheMissError(url)]
             ELSE IF decoded.err # Nil
             THEN [header |-> NoHeader, json |-> <<>>, err |-> decoded.err]
             ELSE [header |-> decoded.header, json |-> result.Json, err |-> Nil]

\* a store that sends the header alone when the key has an entry already
StoreResponseHeaderFirst(url, header, json, client, db, redisOK) ==
    IF client = NilClient
    THEN [db |-> db, err |-> Err("redis connection not initialized")]
    ELSE [db |-> IF redisOK
                 THEN [db EXCEPT ![url] = [HeaderBytes |-> GobEncode(header),
                                           Json |-> IF db[url] = NoHash THEN json
                                                    ELSE db[url].Json]]
                 ELSE db,
          err |-> Nil]

\* cache.StoreResponse: the result of HSET is not looked at, so the call
\* returns nil whether or not redis took the write
StoreResponse(url, header, json, client, db, redisOK) ==
    IF client = NilClient
    THEN [db |-> db, err |-> Err("redis connection not initialized")]
    ELSE [db |-> IF redisOK
                 THEN [db EXCEPT ![url] = [HeaderBytes |-> GobEncode(header),
                                           Json |-> json]]
                 ELSE db,
          err |-> Nil]

\* a CacheResponseRecorder{ResponseWriter: w} before the handler ran
NewRecorder == [Status |-> 0, Json |-> <<>>]

\* the http.ResponseWriter under the recorders: the first WriteHeader fixes
\* status and headers, every Write adds to the body
WriteResponse(w, response) ==
    IF w.status = 0 THEN response
    ELSE [w EXCEPT !.body = @ \o response.body]

\* CacheResponseRecorder.WriteHeader and CacheResponseRecorder.Write
Record(recorder, response) ==
    [Status |-> response.status, Json |-> BytesOf(response.body)]

\* a CacheResponse that takes every lookup error for a miss
AfterLookupErrorAsMiss(e) == IF e = Nil THEN "done" ELSE "handler"

\* CacheResponse after the lookup: a hit and an error other than a miss end
\* the request, a miss goes on to the wrapped handler
AfterLookupFallThrough(e) ==
    IF e # Nil /\ e.kind # "CacheMissError" THEN "done" ELSE "handler"

AfterLookup(e) ==
    IF e = Nil THEN "done"
    ELSE IF e.kind # "CacheMissError" THEN "done"
    ELSE "handler"

\* a CacheResponse that stores whatever the handler wrote
ShouldStoreAnyStatus(recorder) == recorder.Status # 0

\* "Write the generated response into the redis cache if it is code 200"
ShouldStoreUnlessError(recorder) == recorder.Status < StatusInternalServerError

ShouldStore(recorder) == recorder.Status = StatusOK

\* net/http when the outermost handler returns without having written:
\* an empty 200
Finished(w) ==
    IF w.status = 0
    THEN [status |-> StatusOK,
          header |-> [Link |-> NoHeader, ContentType |-> ""], body |-> <<>>]
    ELSE w

(***************************************************************************)
(* State.                                                                  *)
(*   list*     one list request: middleware parsing, then the list handler *)
(*   lookup, input, lookupPc, ret                                          *)
(*             one call of a detail lookup and what it returned            *)
(*   lookupR, lookupCtx, lookupW, lookupLog                                *)
(*             the detail request around that call: the request and its    *)
(*             context, the response and the error log of the handler      *)
(*   rows, err, errs, workerPc                                             *)
(*             GetPokemon: rows is the array of the four result sets, err  *)
(*             the named return value that the four closures assign, errs  *)
(*             the error the errgroup keeps, workerPc where each worker is *)
(*   redisClient, redisDB, conn                                            *)
(*             the server: the redis client of package cache, the hashes   *)
(*             redis holds per URL, and per connection the request, where  *)
(*             the middleware chain is and what it did so far (storeOrder  *)
(*             is the rank of its HSET among those that reached redis,     *)
(*             trace the stages in the order they were entered and the     *)
(*             entry written to the access log)                            *)
(*   fn, args, returned                                                    *)
(*             one call of a function of the query layer or of the         *)
(*             handlers: its name, its arguments and what it returned      *)
(***************************************************************************)
VARIABLES listR, listTable, listCtx, listW, listLog, listPc,
          lookup, input, lookupPc, ret, rows, err, errs, workerPc,
          lookupR, lookupCtx, lookupW, lookupLog,
          redisClient, redisDB, conn,
          fn, args, returned

listVars == <<listR, listTable, listCtx, listW, listLog, listPc>>
lookupVars == <<lookup, input, lookupPc, ret, rows, err, errs, workerPc,
                lookupR, lookupCtx, lookupW, lookupLog>>
serverVars == <<redisClient, redisDB, conn>>
callVars == <<fn, args, returned>>
vars == <<listVars, lookupVars, serverVars, callVars>>

Workers == 1..4

NoReturn == [err |-> Err("not returned")]

NotCalled == [called |-> FALSE]

\* no function is called
CallIdle ==
    /\ fn = "none"
    /\ args = [none |-> TRUE]
    /\ returned = NotCalled

\* no lookup is called
LookupIdle ==
    /\ lookup = "none"
    /\ input = [SearchType |-> ID, ID |-> 0, Name |-> ""]
    /\ lookupPc = "idle"
    /\ ret = NoReturn
    /\ rows = [i \in Workers |-> NilRows]
    /\ err = Nil
    /\ errs = Nil
    /\ workerPc = [i \in Workers |-> "idle"]
    /\ lookupR = [Host |-> ""]
    /\ lookupCtx = [fieldLimitOK |-> FALSE,
                    fieldLimitParams |-> [FieldLimitingEnabled |-> FALSE, Fields |-> <<>>]]
    /\ lookupW = NoResponse
    /\ lookupLog = Nil

\* the request context before any middleware stored a value in it
EmptyCtx ==
    [fieldLimitOK |-> FALSE,
     fieldLimitParams |-> [FieldLimitingEnabled |-> FALSE, Fields |-> <<>>],
     listOK |-> FALSE,
     listParams |-> [Sort |-> [SortEnabled |-> FALSE, SortType |-> ""],
                     Pagination |-> [PerPage |-> 0, Page |-> 0]]]

\* no list request is served
ListIdle ==
    /\ listCtx = EmptyCtx
    /\ listR = [Host |-> "", URL |-> [path |-> "", query |-> <<>>]]
    /\ listTable = 0
    /\ listW = NoResponse
    /\ listLog = Nil
    /\ listPc = "idle"

(***************************************************************************)
(* The server: connections, requests and the routes of main.go.            *)
(***************************************************************************)
Connections == 1..MaxConnections

Hosts == <<"pmd.example", "mirror.example">>

\* r.URL of the requests: /v1/abilities and /v1/abilities/:searcharg
Targets ==
    <<[path |-> "/v1/abilities", searcharg |-> Absent, query |-> <<>>],
      [path |-> "/v1/abilities",  searcharg |-> Absent,
       query |-> <<[key |-> "page", val |-> <<"2">>]>>],
      [path |-> "/v1/abilities/", searcharg |-> <<"blaze">>, query |-> <<>>],
      [path |-> "/v1/abilities/", searcharg |-> <<"9">>, query |-> <<>>]>>

\* the requests a client can send, in a fixed order
Requests ==
    [i \in 1..(Len(Hosts) * Len(Targets)) |->
        [Host |-> Hosts[((i - 1) % Len(Hosts)) + 1],
         URL |-> Targets[((i - 1) \div Len(Hosts)) + 1]]]

\* r.URL.String(): the path and the query string, without the host
URLString(url) ==
    IF url.searcharg = Absent THEN <<url.path, <<>>, url.query>>
    ELSE <<url.path, url.searcharg, url.query>>

Keys == {URLString(Targets[i]) : i \in DOMAIN Targets}

NotLookedUp == [header |-> NoHeader, json |-> <<>>, err |-> Err("not looked up")]

NoRequest == [Host |-> "", URL |-> [path |-> "", searcharg |-> Absent, query |-> <<>>]]

\* a chain that puts the cache around the access log
defaultMiddlewareCacheFirst == <<"CacheResponse", "LogRequest", "FieldLimitingParams">>

\* main: the middleware chains, outermost stage first
defaultMiddleware == <<"LogRequest", "CacheResponse", "FieldLimitingParams">>

resourceListMiddleware == defaultMiddleware \o <<"ResourceListParams">>

\* the chain of the route that matches the request
MiddlewareOf(r) ==
    IF r.URL.searcharg = Absent THEN resourceListMiddleware ELSE defaultMiddleware

\* the stages of a chain that are entered up to CacheResponse, and those
\* that CacheResponse calls when it passes the request on
StagesTo(chain) ==
    SubSeq(chain, 1, CHOOSE i \in 1..Len(chain) : chain[i] = "CacheResponse")

StagesBehind(chain) == SubSeq(chain, Len(StagesTo(chain)) + 1, Len(chain))

\* the stages that were entered return in reverse order; LogRequest, if it
\* is among them, then calls logger.LogRequest, which writes one entry
Returned(entered) ==
    IF \E i \in 1..Len(entered) : entered[i] = "LogRequest"
    THEN Append(entered, "access log entry")
    ELSE entered

NewConnection(r) ==
    [pc |-> "CacheResponse", r |-> r, cached |-> NotLookedUp, w |-> NoResponse,
     trace |-> <<>>,
     recorder |-> NewRecorder, handlerCalls |-> 0, storeCalls |-> 0,
     storeOrder |-> 0, logged |-> Nil, client |-> NoResponse]

\* no request is served
ServerIdle ==
    /\ redisClient = Connected
    /\ redisDB = [k \in Keys |-> NoHash]
    /\ conn = [c \in Connections |-> [NewConnection(NoRequest) EXCEPT !.pc = "idle"]]

(***************************************************************************)
(* The raw query strings a client can send.                                *)
(***************************************************************************)
RawNumbers ==
    {<<>>, <<"x">>, <<"0">>, <<"-", "2">>, <<"1", "0">>, <<"2", "x">>}
        \cup {Itoa(n) : n \in 1..MaxRaw}

RawSorts == {<<"name_desc">>, <<"bogus">>}

Param(key, raw) == IF raw = Absent THEN <<>> ELSE <<[key |-> key, val |-> raw]>>

ListQueries ==
    {IF pageFirst
     THEN Param("page", page) \o Param("sort", sort) \o Param("per_page", perPage)
     ELSE Param("sort", sort) \o Param("per_page", perPage) \o Param("page", page) :
        pageFirst \in BOOLEAN,
        sort \in RawSorts \cup {Absent},
        perPage \in RawNumbers \cup {Absent},
        page \in RawNumbers \cup {Absent}}

ListInit ==
    /\ listR \in {[Host |-> "pmd.example",
                   URL |-> [path |-> "/v1/abilities", query |-> q]] :
                      q \in ListQueries}
    /\ listTable \in 0..MaxCount
    /\ listCtx = EmptyCtx
    /\ listW = NoResponse
    /\ listLog = Nil
    /\ listPc = "FieldLimitingParams"
    /\ LookupIdle
    /\ ServerIdle
    /\ CallIdle

\* middleware.FieldLimitingParams, then the next stage
ListFieldLimitingParams ==
    /\ listPc = "FieldLimitingParams"
    /\ listCtx' = [listCtx EXCEPT !.fieldLimitOK = TRUE,
                      !.fieldLimitParams = FieldLimitingParams(listR.URL.query)]
    /\ listPc' = "ResourceListParams"
    /\ UNCHANGED <<listR, listTable, listW, listLog>>
    /\ UNCHANGED <<lookupVars, serverVars, callVars>>

\* middleware.ResourceListParams, then the handler
ListResourceListParams ==
    /\ listPc = "ResourceListParams"
    /\ listCtx' = [listCtx EXCEPT !.listOK = TRUE,
                      !.listParams = ResourceListParams(listR.URL.query)]
    /\ listPc' = "handler"
    /\ UNCHANGED <<listR, listTable, listW, listLog>>
    /\ UNCHANGED <<lookupVars, serverVars, callVars>>

\* handler.AbilityListHandler against the table; the database may fail
ListHandler ==
    /\ listPc = "handler"
    /\ \E queryOK \in BOOLEAN, countOK \in BOOLEAN :
          LET out == AbilityListHandler(listR, listCtx, AbilityTable(listTable),
                                        queryOK, countOK)
          IN  /\ listW' = out.w
              /\ listLog' = out.logged
    /\ listPc' = "done"
    /\ UNCHANGED <<listR, listTable, listCtx>>
    /\ UNCHANGED <<lookupVars, serverVars, callVars>>

ListNext == ListFieldLimitingParams \/ ListResourceListParams \/ ListHandler

SpecList == ListInit /\ [][ListNext]_vars

(***************************************************************************)
(* One detail request and its detail lookup (SpecLookup).                  *)
(***************************************************************************)
SearchInputs(t) ==
    {[SearchType |-> ID, ID |-> i, Name |-> ""] : i \in {1, 2, 3, 9}}
        \cup {[SearchType |-> Name, ID |-> 0, Name |-> n] :
                 n \in {ParentNames[t][1], "Missingno"}}

\* the contexts a detail handler is called with: without the value of
\* FieldLimitingParams, with field limiting disabled, with a fields list
DetailContexts ==
    {[fieldLimitOK |-> FALSE,
      fieldLimitParams |-> [FieldLimitingEnabled |-> FALSE, Fields |-> <<>>]],
     [fieldLimitOK |-> TRUE,
      fieldLimitParams |-> [FieldLimitingEnabled |-> FALSE, Fields |-> <<>>]],
     [fieldLimitOK |-> TRUE,
      fieldLimitParams |-> [FieldLimitingEnabled |-> TRUE,
                            Fields |-> <<"type", "name", "camp">>]]}

LookupInit ==
    /\ lookup \in Resources
    /\ input \in SearchInputs(lookup)
    /\ lookupR \in {[Host |-> Hosts[h]] : h \in DOMAIN Hosts}
    /\ lookupCtx \in DetailContexts
    /\ lookupW = NoResponse
    /\ lookupLog = Nil
    /\ lookupPc = "call"
    /\ ret = NoReturn
    /\ rows = [i \in Workers |-> NilRows]
    /\ err = Nil
    /\ errs = Nil
    /\ workerPc = [i \in Workers |-> "idle"]
    /\ ListIdle
    /\ ServerIdle
    /\ CallIdle

\* GetAbility, GetCamp, GetDungeon, GetMove or GetPokemonType, whole
CallSingle ==
    /\ lookup # "pokemon"
    /\ lookupPc = "call"
    /\ lookupCtx.fieldLimitOK
    /\ \E queryOK \in BOOLEAN :
          LET out == CASE lookup = "ability" -> GetAbility(input, queryOK)
                       [] lookup = "camp" -> GetCamp(input, queryOK)
                       [] lookup = "dungeon" -> GetDungeon(input, queryOK)
                       [] lookup = "move" -> GetMove(input, queryOK)
                       [] lookup = "type" -> GetPokemonType(input, queryOK)
          IN  /\ rows' = [rows EXCEPT ![1] = out.rows]
              /\ ret' = [parent |-> out.parent, extra |-> out.extra,
                         children |-> out.children, err |-> out.err]
              /\ err' = out.err
    /\ lookupPc' = "done"
    /\ UNCHANGED <<lookup, input, errs, workerPc>>
    /\ UNCHANGED <<lookupR, lookupCtx, lookupW, lookupLog>>
    /\ UNCHANGED <<listVars, serverVars, callVars>>

\* GetPokemon: the four errs.Go calls; then the caller waits
Launch ==
    /\ lookup = "pokemon"
    /\ lookupPc = "call"
    /\ lookupCtx.fieldLimitOK
    /\ workerPc' = [i \in Workers |-> "query"]
    /\ lookupPc' = "wait"
    /\ UNCHANGED <<lookup, input, ret, rows, err, errs>>
    /\ UNCHANGED <<lookupR, lookupCtx, lookupW, lookupLog>>
    /\ UNCHANGED <<listVars, serverVars, callVars>>

\* worker i: rows[i], err = dbpool.Query(...)
WorkerQuery(i) ==
    /\ workerPc[i] = "query"
    /\ \E queryOK \in BOOLEAN :
          LET q == dbpoolQuery(SubQueryRows(i, input), queryOK, QueryError(i))
          IN  /\ rows' = [rows EXCEPT ![i] = q.rows]
              /\ err' = q.err
    /\ workerPc' = [workerPc EXCEPT ![i] = "return"]
    /\ UNCHANGED <<lookup, input, lookupPc, ret, errs>>
    /\ UNCHANGED <<lookupR, lookupCtx, lookupW, lookupLog>>
    /\ UNCHANGED <<listVars, serverVars, callVars>>

\* worker i: return err, which the errgroup keeps if it is the first error
WorkerReturn(i) ==
    /\ workerPc[i] = "return"
    /\ errs' = ErrOnce(errs, err)
    /\ workerPc' = [workerPc EXCEPT ![i] = "done"]
    /\ UNCHANGED <<lookup, input, lookupPc, ret, rows, err>>
    /\ UNCHANGED <<lookupR, lookupCtx, lookupW, lookupLog>>
    /\ UNCHANGED <<listVars, serverVars, callVars>>

\* a Wait that returns as soon as the group has kept an error
errsWaitUntilError(pcs, kept) ==
    kept # Nil \/ \A i \in DOMAIN pcs : pcs[i] = "done"

\* errs.Wait() can return: every function passed to errs.Go has returned
errsWait(pcs, kept) == \A i \in DOMAIN pcs : pcs[i] = "done"

\* errs.Wait() returns once every worker has returned; then the error
\* return or the decoding of the four result sets
Join ==
    /\ lookupPc = "wait"
    /\ errsWait(workerPc, errs)
    /\ ret' = IF errs # Nil THEN GetPokemonFailed(errs)
              ELSE GetPokemonDecode(input, rows)
    \* the deferred rows[i].Close() of the path behind the error return
    /\ rows' = IF errs # Nil THEN rows ELSE [i \in Workers |-> Close(rows[i])]
    /\ lookupPc' = "done"
    /\ UNCHANGED <<lookup, input, err, errs, workerPc>>
    /\ UNCHANGED <<lookupR, lookupCtx, lookupW, lookupLog>>
    /\ UNCHANGED <<listVars, serverVars, callVars>>

\* a detail handler: "missing FieldLimitingParams", before any lookup
HandlerWithoutParams ==
    /\ lookupPc = "call"
    /\ ~lookupCtx.fieldLimitOK
    /\ lookupW' = MissingFieldLimitingParams.w
    /\ lookupLog' = MissingFieldLimitingParams.logged
    /\ lookupPc' = "answered"
    /\ UNCHANGED <<lookup, input, ret, rows, err, errs, workerPc, lookupR, lookupCtx>>
    /\ UNCHANGED <<listVars, serverVars, callVars>>

\* a detail handler: from the return of its lookup to its own return
HandlerAnswer ==
    /\ lookupPc = "done"
    /\ LET answer == AnswerDetail(lookup, ret, lookupR, lookupCtx)
       IN  /\ lookupW' = answer.w
           /\ lookupLog' = answer.logged
    /\ lookupPc' = "answered"
    /\ UNCHANGED <<lookup, input, ret, rows, err, errs, workerPc, lookupR, lookupCtx>>
    /\ UNCHANGED <<listVars, serverVars, callVars>>

LookupNext ==
    \/ CallSingle
    \/ Launch
    \/ \E i \in Workers : WorkerQuery(i)
    \/ \E i \in Workers : WorkerReturn(i)
    \/ Join
    \/ HandlerWithoutParams
    \/ HandlerAnswer

SpecLookup == LookupInit /\ [][LookupNext]_vars

(***************************************************************************)
(* The server specification: every connection carries one request through  *)
(* LogRequest(CacheResponse(FieldLimitingParams(ResourceListParams(h)))),   *)
(* the connections interleave at the accesses to redis.                    *)
(***************************************************************************)
\* FieldLimitingParams, ResourceListParams on the list route, then the
\* handler the router chose
Serve(r, queryOK, countOK) ==
    LET ctx1 == [EmptyCtx EXCEPT !.fieldLimitOK = TRUE,
                    !.fieldLimitParams = FieldLimitingParams(r.URL.query)]
        ctx2 == [ctx1 EXCEPT !.listOK = TRUE,
                    !.listParams = ResourceListParams(r.URL.query)]
    IN  IF r.URL.searcharg = Absent
        THEN AbilityListHandler(r, ctx2, AbilityTable(MaxCount), queryOK, countOK)
        ELSE AbilitySearchHandler(r, ctx1, r.URL.searcharg, queryOK)

\* the connections are interchangeable: they carry their requests in the
\* order of Requests
Init ==
    /\ redisClient = Connected
    /\ redisDB = [k \in Keys |-> NoHash]
    /\ \E f \in [Connections -> DOMAIN Requests] :
          /\ \A c \in Connections : c > 1 => f[c - 1] <= f[c]
          /\ conn = [c \in Connections |-> NewConnection(Requests[f[c]])]
    /\ ListIdle
    /\ LookupIdle
    /\ CallIdle

\* LogRequest and CacheResponse up to the wrapped handler: the lookup, on a
\* hit the replay; a hit and an error other than a miss end the request
CacheLookup(c) ==
    /\ conn[c].pc = "CacheResponse"
    /\ \E redisOK \in BOOLEAN :
          LET res == GetCachedResponse(URLString(conn[c].r.URL), redisClient,
                                       redisDB, redisOK)
              replay == [status |-> StatusOK, header |-> res.header,
                         body |-> BodyOf(res.json)]
              w == IF res.err = Nil THEN WriteResponse(conn[c].w, replay)
                   ELSE conn[c].w
              pc == AfterLookup(res.err)
          IN  conn' = [conn EXCEPT
                  ![c].cached = res,
                  ![c].w = w,
                  ![c].logged = IF res.err # Nil /\ res.err.kind # "CacheMissError"
                                THEN res.err ELSE @,
                  ![c].client = IF pc = "done" THEN Finished(w) ELSE @,
                  ![c].trace = IF pc = "done"
                               THEN Returned(StagesTo(MiddlewareOf(conn[c].r)))
                               ELSE StagesTo(MiddlewareOf(conn[c].r)),
                  ![c].pc = pc]
    /\ UNCHANGED <<redisClient, redisDB>>
    /\ UNCHANGED <<listVars, lookupVars, callVars>>

\* h(&responseRecorder, r, ps), the store of a 200 response, and the return
\* through LogRequest.  The wrapped handler reads no state that another
\* connection writes, so it is one step with the store that follows it.
HandleAndStore(c) ==
    /\ conn[c].pc = "handler"
    /\ \E queryOK, countOK, redisOK \in BOOLEAN :
          LET out == Serve(conn[c].r, queryOK, countOK)
              w == WriteResponse(conn[c].w, out.w)
              recorder == Record(conn[c].recorder, out.w)
              res == StoreResponse(URLString(conn[c].r.URL), w.header,
                                   recorder.Json, redisClient, redisDB, redisOK)
              stored == ShouldStore(recorder)
              \* the HSET reached redis: it is the latest write so far
              latest == 1 + Cardinality({d \in Connections : conn[d].storeOrder > 0})
          IN  /\ redisDB' = IF stored THEN res.db ELSE redisDB
              /\ conn' = [conn EXCEPT
                     ![c].w = w,
                     ![c].recorder = recorder,
                     ![c].handlerCalls = @ + 1,
                     ![c].storeCalls = IF stored THEN @ + 1 ELSE @,
                     ![c].storeOrder = IF stored /\ redisClient = Connected /\ redisOK
                                       THEN latest ELSE @,
                     ![c].logged = IF out.logged # Nil THEN out.logged
                                   ELSE IF stored /\ res.err # Nil THEN res.err
                                   ELSE @,
                     ![c].client = Finished(w),
                     ![c].trace = Returned(@ \o StagesBehind(MiddlewareOf(conn[c].r))
                                            \o <<"handler">>),
                     ![c].pc = "done"]
    /\ UNCHANGED redisClient
    /\ UNCHANGED <<listVars, lookupVars, callVars>>

\* cache.CloseRedis, deferred by main
CloseRedis ==
    /\ redisClient # NilClient
    /\ redisClient' = NilClient
    /\ UNCHANGED <<redisDB, conn>>
    /\ UNCHANGED <<listVars, lookupVars, callVars>>

Next ==
    \/ \E c \in Connections : CacheLookup(c)
    \/ \E c \in Connections : HandleAndStore(c)
    \/ CloseRedis

Spec == Init /\ [][Next]_vars

(***************************************************************************)
(* The function calls: a list operation behind ResourceListParams, and     *)
(* limitResultFields, each over every argument within the bounds.          *)
(***************************************************************************)
\* the raw values of the sort parameter
SortRaws ==
    {Absent, <<>>, <<"id_asc">>, <<"id_desc">>, <<"name_asc">>, <<"name_desc">>,
     <<"bogus">>, <<"ID_DESC">>}

CallQueries ==
    {Param("sort", sort) \o Param("per_page", perPage) \o Param("page", page) :
        sort \in SortRaws,
        perPage \in {Absent, Itoa(1), Itoa(2)},
        page \in {Absent} \cup {Itoa(n) : n \in 1..MaxRaw}}

\* the database of a list call: the dungeon table has args.dungeons rows and
\* every other table args.rows rows
CallDB(a) ==
    [t \in Tables |-> AbilityTable(IF t = "dungeon" THEN a.dungeons ELSE a.rows)]

\* the top-level keys of a response object, and the names a client can ask for
ObjectKeys == {"id", "name", "pokemon"}
FieldNames == ObjectKeys \cup {"bogus", ""}

\* the ordered objects: every sequence of distinct keys, each with a value
Objects ==
    {[i \in 1..Len(ks) |-> [key |-> ks[i], value |-> <<[text |-> "value of " \o ks[i]]>>]] :
        ks \in {q \in UNION {[1..n -> ObjectKeys] : n \in 0..Cardinality(ObjectKeys)} :
                   \A i, j \in 1..Len(q) : q[i] = q[j] => i = j}}

FieldLists == UNION {[1..n -> FieldNames] : n \in 0..MaxFields}

\* the raw values of the fields parameter: field names and commas
FieldRaws ==
    {Absent} \cup UNION {[1..n -> {"name", "id", ","}] : n \in 0..(MaxFields + 1)}

CallInit ==
    /\ \/ /\ fn = "list"
          /\ args \in [op : ListOperations, query : CallQueries,
                       rows : 0..MaxCount, dungeons : 0..MaxCount]
       \/ /\ fn = "limitResultFields"
          /\ args \in [responseJSON : Objects,
                       params : [FieldLimitingEnabled : BOOLEAN, Fields : FieldLists]]
       \/ /\ fn = "FieldLimitingParams"
          /\ args \in [query : {Param("fields", raw) : raw \in FieldRaws},
                       responseJSON :
                           {<<[key |-> "id", value |-> <<[n |-> 1]>>],
                              [key |-> "name", value |-> <<[text |-> "Bulbasaur"]>>],
                              [key |-> "pokemon", value |-> <<>>]>>}]
    /\ returned = NotCalled
    /\ ListIdle
    /\ LookupIdle
    /\ ServerIdle

\* ResourceListParams, then the list operation the handler calls
CallList ==
    /\ fn = "list"
    /\ returned = NotCalled
    /\ \E queryOK, countOK \in BOOLEAN :
          LET params == ResourceListParams(args.query)
              src == ListSource[args.op]
          IN  returned' = [called |-> TRUE,
                      params |-> params,
                      query |-> buildQuery(src.select, params.Sort, src.idColumn,
                                           src.nameColumn, params.Pagination),
                      result |-> ListOperation(args.op, params.Sort, params.Pagination,
                                               CallDB(args), queryOK, countOK)]
    /\ UNCHANGED <<fn, args>>
    /\ UNCHANGED <<listVars, lookupVars, serverVars>>

\* limitResultFields(responseJSON, params)
CallLimitResultFields ==
    /\ fn = "limitResultFields"
    /\ returned = NotCalled
    /\ returned' = [called |-> TRUE,
               responseJSON |-> limitResultFields(args.responseJSON, args.params)]
    /\ UNCHANGED <<fn, args>>
    /\ UNCHANGED <<listVars, lookupVars, serverVars>>

\* FieldLimitingParams, then the field limiting of the handler it wraps
CallFieldLimitingParams ==
    /\ fn = "FieldLimitingParams"
    /\ returned = NotCalled
    /\ LET params == FieldLimitingParams(args.query)
       IN  returned' = [called |-> TRUE,
                        params |-> params,
                        responseJSON |-> limitResultFields(args.responseJSON, params)]
    /\ UNCHANGED <<fn, args>>
    /\ UNCHANGED <<listVars, lookupVars, serverVars>>

CallNext == CallList \/ CallLimitResultFields \/ CallFieldLimitingParams

SpecCall == CallInit /\ [][CallNext]_vars

(***************************************************************************)
(* Properties of the list request (SpecList).                              *)
(***************************************************************************)
\* ceil(total / perPage), stated without the code's arithmetic
CeilDiv(total, perPage) ==
    CHOOSE k \in 0..total :
        /\ k * perPage >= total
        /\ k = 0 \/ (k - 1) * perPage < total

ListPagination == listCtx.listParams.Pagination

\* answerWithListJSON has written the list response for valid pagination
ListAnswered ==
    /\ listPc = "done"
    /\ listW.status = StatusOK
    /\ ListPagination.Page >= 1
    /\ ListPagination.PerPage >= 1

ListLink == listW.header.Link

\* C7 as stated: in the Link header the rel=previous entry is null if and
\* only if page = 1.
C7_PreviousNullIffFirstPage ==
    ListAnswered =>
        ((ListLink.previous = NullURL) <=> (ListPagination.Page = 1))

\* C7 as amended: the rel=previous entry is null if and only if page = 1 or
\* page lies beyond the last page, ceil(total / perPage).
C7_PreviousNullFirstOrBeyondLast ==
    ListAnswered =>
        ((ListLink.previous = NullURL) <=>
            \/ ListPagination.Page = 1
            \/ ListPagination.Page > CeilDiv(listTable, ListPagination.PerPage))

C7_Witness ==
    /\ ListAnswered
    /\ ListPagination.Page > 1
    /\ ListPagination.Page > CeilDiv(listTable, ListPagination.PerPage)
    /\ listTable > 0
    /\ ListLink.previous = NullURL

\* C8: the rel=next entry is null if and only if page >= ceil(total/perPage),
\* and the page the rel=last entry carries is ceil(total / perPage).
C8_NextNullIffLastOrBeyond ==
    ListAnswered =>
        /\ (ListLink.next = NullURL) <=>
              (ListPagination.Page >= CeilDiv(listTable, ListPagination.PerPage))
        /\ QueryGet(ListLink.last.query, "page") =
              Itoa(CeilDiv(listTable, ListPagination.PerPage))
                  \o StripDigits(QueryGet(listR.URL.query, "page"))

C8_Witness ==
    /\ ListAnswered
    /\ listTable > 0
    /\ listTable % ListPagination.PerPage = 0
    /\ ListPagination.PerPage > 1
    /\ ListPagination.Page = CeilDiv(listTable, ListPagination.PerPage)
    /\ ListLink.next = NullURL

\* C9: when the total count is 0 the rel=last link carries page=1, never
\* page=0.
C9_LastLinkPageOneWhenEmpty ==
    (ListAnswered /\ listTable = 0) =>
        /\ ListLink.last # NullURL
        /\ QueryGet(ListLink.last.query, "page") # Itoa(0)
        /\ QueryGet(ListLink.last.query, "page") = Itoa(1)

\* the raw values that are decimal integers
NumericRaws == {Itoa(n) : n \in (0 - 20)..20}

\* C10: for every raw page and per_page value the Pagination in the context
\* has Page >= 1 and PerPage >= 1; non-numeric or zero inputs give Page = 1
\* and PerPage = 50.
C10_PaginationAtLeastOne ==
    listCtx.listOK =>
        /\ ListPagination.Page >= 1
        /\ ListPagination.PerPage >= 1
        /\ QueryGet(listR.URL.query, "page") \notin (NumericRaws \ {Itoa(0)})
              => ListPagination.Page = 1
        /\ QueryGet(listR.URL.query, "per_page") \notin (NumericRaws \ {Itoa(0)})
              => ListPagination.PerPage = 50

(***************************************************************************)
(* Properties of the detail lookups (SpecLookup).                          *)
(***************************************************************************)
LookupReturned == lookupPc = "done"

\* the base query was served and matched no parent row
BaseMatchedNothing == rows[1].open /\ rows[1].data = <<>>

SomeSubQueryFailed == \E i \in Workers : rows[i].err # Nil

\* C1: if at least one sub-query of GetPokemon fails, GetPokemon returns a
\* non-nil error and nil lists, never a success or a NotFound built from the
\* sub-queries that succeeded.
C1_FanOutAllOrNothing ==
    (lookup = "pokemon" /\ LookupReturned /\ SomeSubQueryFailed) =>
        /\ ret.err # Nil
        /\ ret.err.kind # "ResourceNotFoundError"
        /\ ret.abilities = <<>> /\ ret.dungeons = <<>>
        /\ ret.moves = <<>> /\ ret.types = <<>>

\* C2 as stated: when the base query matches zero parent rows, the lookup
\* returns a ResourceNotFoundError carrying the resource type and the search
\* key, never a nil error with a zero-valued parent.
C2_NotFoundWhenNoParentRow ==
    (LookupReturned /\ BaseMatchedNothing) =>
        ret.err = ResourceNotFoundError(lookup, input)

\* C2 as amended: when the base query matches zero parent rows the lookup
\* never returns a nil error, and when no query of the lookup failed the
\* error is the ResourceNotFoundError carrying the resource type and the
\* search key.
C2_NotFoundUnlessQueryFailed ==
    (LookupReturned /\ BaseMatchedNothing) =>
        /\ ret.err # Nil
        /\ ~SomeSubQueryFailed => ret.err = ResourceNotFoundError(lookup, input)

C2_Witness ==
    /\ LookupReturned
    /\ BaseMatchedNothing
    /\ lookup = "pokemon"
    /\ input.SearchType = Name
    /\ ret.err = ResourceNotFoundError("pokemon", input)
    /\ ret.err.Name = "Missingno"

(***************************************************************************)
(* Properties of the server (Spec).                                        *)
(***************************************************************************)
Hit(c) == conn[c].cached.err = Nil

Miss(c) == conn[c].cached.err # Nil /\ conn[c].cached.err.kind = "CacheMissError"

Done(c) == conn[c].pc = "done"

\* the response the handler produces for request r over the unchanged data
HandlerResponse(r) == Serve(r, TRUE, TRUE).w

\* C3: when the cache lookup of a request is a hit, the wrapped handler is
\* never invoked for it and nothing is stored: the request ends with status
\* 200 and the stored body.
C3_HitSkipsHandler ==
    \A c \in Connections :
        Hit(c) => /\ conn[c].handlerCalls = 0
                  /\ conn[c].storeCalls = 0
                  /\ Done(c)
                  /\ conn[c].client.status = StatusOK
                  /\ conn[c].client.body = BodyOf(conn[c].cached.json)

C3_Witness ==
    \E c, d \in Connections :
        /\ Done(c) /\ Hit(c) /\ conn[c].handlerCalls = 0
        /\ conn[c].client.status = StatusOK
        /\ Done(d) /\ Miss(d) /\ conn[d].storeCalls = 1
        /\ conn[c].client.body = conn[d].client.body
        /\ Len(conn[c].client.body) > 0

\* C4: on a cache miss, once the wrapped handler completed, a store was
\* attempted if and only if the status the handler emitted is exactly 200.
C4_StoreIffStatus200 ==
    \A c \in Connections :
        (Done(c) /\ Miss(c)) =>
            /\ conn[c].handlerCalls = 1
            /\ conn[c].storeCalls <= 1
            /\ (conn[c].storeCalls = 1) <=> (conn[c].client.status = StatusOK)

C4_Witness ==
    \E c, d \in Connections :
        /\ Done(c) /\ Miss(c)
        /\ conn[c].client.status = StatusNotFound /\ conn[c].storeCalls = 0
        /\ Done(d) /\ Miss(d)
        /\ conn[d].client.status = StatusOK /\ conn[d].storeCalls = 1

\* C5: no storage-layer error of the cache prevents the primary response:
\* every finished request was answered by the wrapped handler or by a
\* cache replay.
C5_ResponseDespiteCacheError ==
    \A c \in Connections :
        Done(c) => /\ conn[c].w # NoResponse
                   /\ Hit(c) \/ conn[c].handlerCalls = 1

\* C6: a cached entry replayed to a request is exactly the response that
\* request would have obtained from the handler.
C6_ReplayEqualsHandlerResponse ==
    \A c \in Connections :
        (Done(c) /\ Hit(c)) => conn[c].client = HandlerResponse(conn[c].r)

(***************************************************************************)
(* Properties of the function calls (SpecCall).                            *)
(***************************************************************************)
ListCalled == fn = "list" /\ returned.called

\* C11: the count a list operation returns equals the number of rows of the
\* table its resources are read from, whatever page, perPage and sort are.
C11_CountOfListedTable ==
    (ListCalled /\ returned.result.err = Nil) =>
        returned.result.count = Len(CallDB(args)[ListSource[args.op].from])

LimitCalled == fn = "limitResultFields" /\ returned.called

\* the reference filter: the entries whose key occurs in fields, in the
\* order of the object
KeptEntries(responseJSON, fields) ==
    SelectSeq(responseJSON, LAMBDA e : \E f \in 1..Len(fields) : fields[f] = e.key)

\* C12: limitResultFields leaves the object unchanged when limiting is
\* disabled; when it is enabled the result is exactly the subsequence of the
\* entries whose key occurs in Fields, in insertion order with unchanged
\* values, hence the empty object when Fields names no key of the object.
C12_LimitResultFieldsIsFilter ==
    LimitCalled =>
        /\ ~args.params.FieldLimitingEnabled =>
              returned.responseJSON = args.responseJSON
        /\ args.params.FieldLimitingEnabled =>
              /\ returned.responseJSON =
                    KeptEntries(args.responseJSON, args.params.Fields)
              /\ (\A f \in 1..Len(args.params.Fields) :
                     args.params.Fields[f] \notin ObjectKeys) =>
                        returned.responseJSON = <<>>

C12_Witness ==
    /\ LimitCalled
    /\ args.params.FieldLimitingEnabled
    /\ args.params.Fields = <<"pokemon", "id">>
    /\ Len(args.responseJSON) = 3
    /\ args.responseJSON[1].key = "id" /\ args.responseJSON[3].key = "pokemon"
    /\ returned.responseJSON = <<args.responseJSON[1], args.responseJSON[3]>>

(***************************************************************************)
(* More properties of the detail lookups (SpecLookup).                     *)
(***************************************************************************)
\* the parent and the child list a lookup returned
ReturnedParent == IF lookup = "pokemon" THEN ret.pokemon ELSE ret.parent
ReturnedChildren == IF lookup = "pokemon" THEN ret.dungeons ELSE ret.children

\* the base query was served and the lookup returned without an error
BaseDecoded == LookupReturned /\ rows[1].open /\ ret.err = Nil

RawSort == QueryGet(args.query, "sort")
RawPage == QueryGet(args.query, "page")
RawPerPage == QueryGet(args.query, "per_page")

\* the page and per_page a raw decimal value stands for, the default if absent
NumberOf(raw, default) ==
    IF raw = <<>> THEN default ELSE CHOOSE n \in 0..(MaxRaw + 10) : Itoa(n) = raw

\* the ordering the API documents for a raw sort value
DocumentedOrder(raw, idColumn, nameColumn) ==
    CASE raw = <<"id_asc">> -> [column |-> idColumn, direction |-> "ASC"]
      [] raw = <<"id_desc">> -> [column |-> idColumn, direction |-> "DESC"]
      [] raw = <<"name_asc">> -> [column |-> nameColumn, direction |-> "ASC"]
      [] raw = <<"name_desc">> -> [column |-> nameColumn, direction |-> "DESC"]
      [] OTHER -> [column |-> idColumn, direction |-> "ASC"]

\* C14: the list query orders by the id column ascending unless the raw sort
\* value is exactly id_asc, id_desc, name_asc or name_desc, and then by the
\* named column and direction; any other value is ignored, the call then
\* returns what it returns without a sort parameter; the query ends with
\* LIMIT perPage OFFSET (page-1)*perPage.
C14_SortAndPagination ==
    ListCalled =>
        LET src == ListSource[args.op]
            page == NumberOf(RawPage, DefaultPage)
            perPage == NumberOf(RawPerPage, DefaultPerPage)
            unsorted == [SortEnabled |-> FALSE, SortType |-> ""]
        IN  /\ returned.query.orderBy =
                  DocumentedOrder(RawSort, src.idColumn, src.nameColumn)
            /\ returned.query.limit = perPage
            /\ returned.query.offset = (page - 1) * perPage
            /\ RawSort \notin {<<"id_asc">>, <<"id_desc">>, <<"name_asc">>, <<"name_desc">>} =>
                  \E queryOK, countOK \in BOOLEAN :
                      returned.result =
                          ListOperation(args.op, unsorted,
                                        [PerPage |-> perPage, Page |-> page],
                                        CallDB(args), queryOK, countOK)

C14_Witness ==
    /\ ListCalled
    /\ args.op = "GetMoveList"
    /\ RawSort = <<"name_asc">>
    /\ RawPage = <<"2">> /\ RawPerPage = <<"2">>
    /\ returned.query.orderBy = [column |-> "move_name", direction |-> "ASC"]
    /\ returned.query.limit = 2 /\ returned.query.offset = 2
    /\ returned.result.err = Nil
    /\ Len(returned.result.resources) > 0

(***************************************************************************)
(* Properties of the detail handlers (SpecLookup).                         *)
(***************************************************************************)
Answered == lookupPc = "answered"

\* the lookup of the answered request returned a ResourceNotFoundError
LookupNotFound ==
    lookupCtx.fieldLimitOK /\ ret.err # Nil /\ ret.err.kind = "ResourceNotFoundError"

\* the request failed, and not because the resource was not found
FailedOtherwise ==
    \/ ~lookupCtx.fieldLimitOK
    \/ ret.err # Nil /\ ret.err.kind # "ResourceNotFoundError"

\* the error inside the server of a request that FailedOtherwise
InternalError ==
    IF ~lookupCtx.fieldLimitOK THEN Err("missing FieldLimitingParams") ELSE ret.err

TextBody(msg) == <<[key |-> "text", value |-> <<[text |-> msg]>>]>>

NotFoundMessage ==
    "resource of type '" \o lookup \o "' with "
        \o (IF input.SearchType = ID THEN "ID '" \o ToString(input.ID)
            ELSE "name '" \o input.Name)
        \o "' not found"

\* C15: a detail handler answers a ResourceNotFoundError of its lookup with
\* status 404 and the body "resource of type '<type>' with <ID|name>
\* '<value>' not found" that holds the search key, any other error with
\* status 500 and no error with status 200; it emits no other status.
C15_StatusOfLookupOutcome ==
    Answered =>
        /\ lookupW.status \in {StatusOK, StatusNotFound, StatusInternalServerError}
        /\ LookupNotFound =>
              lookupW.status = StatusNotFound /\ lookupW.body = TextBody(NotFoundMessage)
        /\ FailedOtherwise => lookupW.status = StatusInternalServerError
        /\ lookupCtx.fieldLimitOK /\ ret.err = Nil => lookupW.status = StatusOK

C15_Witness ==
    /\ Answered
    /\ lookup = "pokemon"
    /\ input = [SearchType |-> ID, ID |-> 9, Name |-> ""]
    /\ lookupW.status = StatusNotFound
    /\ lookupW.body = TextBody("resource of type 'pokemon' with ID '9' not found")

\* C16: when a request fails and not with a NotFound, the body the client
\* gets is the fixed generic message and holds no text of the internal
\* error; the internal error is in the error log, which holds nothing else.
C16_GenericMessageToClient ==
    Answered =>
        /\ FailedOtherwise =>
              /\ lookupW.body = TextBody(GenericMessage)
              /\ \A i \in 1..Len(lookupW.body) :
                    \A j \in 1..Len(lookupW.body[i].value) :
                        lookupW.body[i].value[j] # [text |-> InternalError.kind]
              /\ lookupLog = InternalError
        /\ ~FailedOtherwise => lookupLog = Nil

C16_Witness ==
    /\ Answered
    /\ lookup = "camp"
    /\ ret.err = QueryError(1)
    /\ lookupLog = QueryError(1)
    /\ lookupW.status = StatusInternalServerError
    /\ lookupW.body = TextBody(GenericMessage)

\* the collection of the resources that the entry of a detail response
\* with this key refers to
CollectionOf ==
    [pokemon |-> "pokemon", type |-> "types", types |-> "types",
     interactions |-> "types", camp |-> "camps", abilities |-> "abilities",
     dungeons |-> "dungeons", moves |-> "moves"]

\* the {name,url} references of a value of a detail response
ReferencesIn(value) ==
    {IF "url" \in DOMAIN value[i] THEN value[i]
     ELSE value[i][CHOOSE f \in DOMAIN value[i] : TRUE] : i \in 1..Len(value)}

\* C17: every nested {name,url} reference of a detail response has a url
\* into the collection of the referenced resource's kind, the type of a
\* move has the url <instance-url>/v1/types/<type-id>.
C17_ReferencesOfOwnKind ==
    Answered /\ lookupW.status = StatusOK =>
        \A i \in 1..Len(lookupW.body) :
            lookupW.body[i].key \in DOMAIN CollectionOf =>
                \A ref \in ReferencesIn(lookupW.body[i].value) :
                    \E id \in 0..20 :
                        ref.url = lookupR.Host \o "/v1/"
                                     \o CollectionOf[lookupW.body[i].key]
                                     \o "/" \o ToString(id)

(***************************************************************************)
(* Properties of the fan-out of GetPokemon (SpecLookup).                   *)
(***************************************************************************)
\* the workers that were launched, and those that have not returned yet
Launched == {i \in DOMAIN workerPc : workerPc[i] # "idle"}
Running == {i \in DOMAIN workerPc : workerPc[i] \in {"query", "return"}}

\* the handler called GetPokemon; GetPokemon has returned to it
GetPokemonCalled == lookup = "pokemon" /\ lookupPc \in {"wait", "done"}
GetPokemonReturned == lookup = "pokemon" /\ lookupPc = "done"

\* C19: GetPokemon launches exactly four workers, and when it returns, with
\* an error or without, all four have terminated: no worker is running
\* after the call.
C19_AllWorkersJoined ==
    /\ GetPokemonCalled => Cardinality(Launched) = 4
    /\ GetPokemonReturned => Running = {}
    /\ lookupPc = "answered" => Running = {}
    /\ ~GetPokemonCalled /\ lookupPc # "answered" => Launched = {}

C19_Witness ==
    /\ GetPokemonReturned
    /\ ret.err = QueryError(2)
    /\ rows[4].open
    /\ Cardinality(Launched) = 4
    /\ \A i \in Workers : workerPc[i] = "done"

(***************************************************************************)
(* More properties of the server (Spec).                                   *)
(***************************************************************************)
SameURL(c, d) == URLString(conn[c].r.URL) = URLString(conn[d].r.URL)

\* the hash that the store of connection c sends, the response that a
\* replay of it gives
StoredPair(c) ==
    [HeaderBytes |-> GobEncode(conn[c].w.header), Json |-> conn[c].recorder.Json]

Replay(c) ==
    [status |-> StatusOK, header |-> conn[c].w.header,
     body |-> BodyOf(conn[c].recorder.Json)]

\* the stores of the URL of connection c that reached redis, the last one
StoresOf(c) == {e \in Connections : SameURL(c, e) /\ conn[e].storeOrder > 0}

LastStoreOf(c) ==
    {e \in StoresOf(c) : \A f \in StoresOf(c) : conn[f].storeOrder <= conn[e].storeOrder}

\* the request of connection c met no failure of redis or of the database,
\* and its URL is one the handler answers with status 200
Undisturbed(c) ==
    /\ Done(c)
    /\ conn[c].logged = Nil
    /\ HandlerResponse(conn[c].r).status = StatusOK

\* C18: of two concurrent requests for the same URL that was not cached,
\* however their steps interleave, each gets a complete 200 response, that
\* of its own handler run or the entry another request stored; and when
\* both have finished the entry of the URL is the header and body pair of
\* the last store, never the header of one store with the body of another.
C18_LastStoreWinsWhole ==
    \A c, d \in Connections :
        c # d /\ SameURL(c, d) /\ Done(c) /\ Done(d) =>
            /\ Undisturbed(c) =>
                  \/ conn[c].handlerCalls = 1
                        /\ conn[c].client = HandlerResponse(conn[c].r)
                  \/ conn[c].handlerCalls = 0
                        /\ \E e \in StoresOf(c) \ {c} : conn[c].client = Replay(e)
            /\ \A e \in LastStoreOf(c) :
                  redisDB[URLString(conn[c].r.URL)] = StoredPair(e)
            /\ StoresOf(c) = {} => redisDB[URLString(conn[c].r.URL)] = NoHash

C18_Witness ==
    \E c, d \in Connections :
        /\ c # d /\ SameURL(c, d) /\ Done(c) /\ Done(d)
        /\ conn[c].r.Host # conn[d].r.Host
        /\ conn[c].handlerCalls = 1 /\ conn[d].handlerCalls = 1
        /\ conn[c].storeOrder = 1 /\ conn[d].storeOrder = 2
        /\ Undisturbed(c) /\ Undisturbed(d)
        /\ StoredPair(c) # StoredPair(d)
        /\ redisDB[URLString(conn[c].r.URL)] = StoredPair(d)

\* C20: when the cache lookup of a request fails and not with a
\* CacheMissError, CacheResponse logs that error and the request ends: the
\* wrapped handler is not invoked and nothing is stored for the request.
C20_LookupErrorAborts ==
    \A c \in Connections :
        conn[c].cached.err # Nil /\ conn[c].cached.err.kind # "CacheMissError"
            /\ conn[c].cached # NotLookedUp =>
                /\ Done(c)
                /\ conn[c].logged = conn[c].cached.err
                /\ conn[c].handlerCalls = 0
                /\ conn[c].recorder = NewRecorder
                /\ conn[c].storeCalls = 0 /\ conn[c].storeOrder = 0

C20_Witness ==
    \E c \in Connections :
        /\ Done(c)
        /\ conn[c].cached.err = Err("redis: no answer")
        /\ conn[c].logged = Err("redis: no answer")
        /\ conn[c].handlerCalls = 0 /\ conn[c].storeCalls = 0
        /\ redisDB[URLString(conn[c].r.URL)] = NoHash

(***************************************************************************)
(* Properties of the cache as a store (Spec).                              *)
(***************************************************************************)
\* connection c called StoreResponse and its write did not reach redis
StoreFailed(c) == Done(c) /\ conn[c].storeCalls = 1 /\ conn[c].storeOrder = 0

\* C21: every failure to store a 200 response, the cache client being
\* uninitialized or redis rejecting the write, is reported and logged to
\* the error log, and the client keeps the response it was sent.
C21_StoreFailureLogged ==
    \A c \in Connections :
        StoreFailed(c) =>
            /\ conn[c].logged # Nil
            /\ conn[c].client = HandlerResponse(conn[c].r)

\* C22: a hit is answered with status 200 and the headers and body that
\* the client of the last store under the same URL received; a step
\* changes the entry of a URL only by the store of a request for that URL.
C22_RoundTrip ==
    [][/\ \A c \in Connections :
             conn[c].pc = "CacheResponse" /\ conn'[c].pc = "done"
                 /\ conn'[c].cached.err = Nil =>
                     /\ conn'[c].client.status = StatusOK
                     /\ LastStoreOf(c) # {}
                     /\ \A e \in LastStoreOf(c) : conn'[c].client = conn[e].client
       /\ \A k \in Keys :
             redisDB'[k] # redisDB[k] =>
                 \E c \in Connections :
                     /\ URLString(conn[c].r.URL) = k
                     /\ conn[c].pc = "handler" /\ conn'[c].pc = "done"
                     /\ conn'[c].client.status = StatusOK
                     /\ redisDB'[k] = [HeaderBytes |-> GobEncode(conn'[c].client.header),
                                       Json |-> BytesOf(conn'[c].client.body)]]_vars

C22_Witness ==
    \E c, d \in Connections :
        /\ c # d /\ SameURL(c, d) /\ Done(c) /\ Done(d)
        /\ conn[d].storeOrder = 1 /\ Hit(c) /\ conn[c].handlerCalls = 0
        /\ conn[c].client = conn[d].client
        /\ conn[c].client.status = StatusOK
        /\ Len(conn[c].client.body) > 0
        /\ \E k \in Keys : k # URLString(conn[c].r.URL) /\ redisDB[k] = NoHash

(***************************************************************************)
(* More properties of the list request (SpecList).                         *)
(***************************************************************************)
\* the request URL, and the request URL with the page parameter that is
\* appended when it has none
ListURL == [host |-> listR.Host, path |-> listR.URL.path, query |-> listR.URL.query]

ListURLWithPage ==
    IF \E i \in 1..Len(ListURL.query) : ListURL.query[i].key = "page"
    THEN ListURL
    ELSE [ListURL EXCEPT
             !.query = Append(@, [key |-> "page", val |-> Itoa(ListPagination.Page)])]

\* the URL with the value of its page parameter replaced by n
PageSetTo(url, n) ==
    [url EXCEPT !.query =
        [i \in 1..Len(url.query) |->
            IF url.query[i].key = "page" THEN [key |-> "page", val |-> Itoa(n)]
            ELSE url.query[i]]]

\* the value of the page parameter is a decimal number, or there is none
PageIsDecimal ==
    \A i \in 1..Len(ListURL.query) :
        ListURL.query[i].key = "page" =>
            Len(ListURL.query[i].val) > 0 /\ AllDigits(ListURL.query[i].val)

\* C23: a request URL without a page parameter gets one appended with the
\* current page; every next, previous and last URL that is not null is the
\* request URL with only the value of the page parameter replaced, by
\* page+1, page-1 and lastPage, and every other parameter unchanged.
C23_LinksReplaceOnlyPage ==
    ListAnswered =>
        LET lastPage == LastPage(listTable, ListPagination.PerPage)
        IN  /\ ListLink.next # NullURL =>
                  ListLink.next = PageSetTo(ListURLWithPage, ListPagination.Page + 1)
            /\ ListLink.previous # NullURL =>
                  ListLink.previous = PageSetTo(ListURLWithPage, ListPagination.Page - 1)
            /\ ListLink.last # NullURL =>
                  ListLink.last = PageSetTo(ListURLWithPage, lastPage)

(***************************************************************************)
(* More properties of the fan-out of GetPokemon (SpecLookup).              *)
(***************************************************************************)
\* C24: no variable is written by more than one of the four workers, so
\* the error a worker returns to the errgroup is the error of its own
\* query, whatever the other workers did in between.
C24_WorkerReturnsOwnError ==
    [][\A i \in Workers :
          workerPc[i] = "return" /\ workerPc'[i] = "done" =>
              errs' = ErrOnce(errs, rows[i].err)]_vars

\* C25: when GetPokemon has returned, on whichever path, every result set
\* that a sub-query opened is closed: no connection stays checked out.
C25_ResultSetsClosed ==
    GetPokemonReturned =>
        \A i \in Workers : rows[i].open => rows[i].closed

\* a row of the base result set whose Scan fails
FailingRows ==
    {k \in 1..Len(rows[1].data) : Scan(rows[1].data[k]).err # Nil}

\* C26: in every detail lookup a failure of the Scan of a result row, the
\* first row included, makes the lookup return an error; after a failed
\* Scan of the first row behind a non-zero parent key the lookup does not
\* return a nil error.
C26_ScanFailureIsError ==
    LookupReturned /\ rows[1].open /\ FailingRows # {} => ret.err # Nil

(***************************************************************************)
(* Properties of the cache contents (Spec).                                *)
(***************************************************************************)
\* the handler ran for connection c and emitted status 200
Emitted200(c) ==
    /\ conn[c].handlerCalls = 1
    /\ conn[c].recorder.Status = StatusOK
    /\ conn[c].w.status = StatusOK

ListRoute(c) == conn[c].r.URL.searcharg = Absent

\* C28: every request to a registered route writes exactly one entry to
\* the access log, after all inner stages have finished, on a hit, on a
\* miss and on a cache error alike; the inner stages run in the order cache
\* lookup, field-limit parsing, list-parameter parsing, handler.
C28_OneAccessLogEntryLast ==
    \A c \in Connections :
        Done(c) =>
            /\ conn[c].trace[Len(conn[c].trace)] = "access log entry"
            /\ Cardinality({i \in 1..Len(conn[c].trace) :
                               conn[c].trace[i] = "access log entry"}) = 1
            /\ conn[c].handlerCalls = 0 =>
                  conn[c].trace = <<"LogRequest", "CacheResponse", "access log entry">>
            /\ conn[c].handlerCalls = 1 /\ ListRoute(c) =>
                  conn[c].trace = <<"LogRequest", "CacheResponse", "FieldLimitingParams",
                                    "ResourceListParams", "handler", "access log entry">>
            /\ conn[c].handlerCalls = 1 /\ ~ListRoute(c) =>
                  conn[c].trace = <<"LogRequest", "CacheResponse", "FieldLimitingParams",
                                    "handler", "access log entry">>

C28_Witness ==
    \E c, d \in Connections :
        /\ Done(c) /\ Done(d)
        /\ Hit(c) /\ conn[c].trace[3] = "access log entry"
        /\ conn[d].handlerCalls = 1 /\ ListRoute(d)
        /\ conn[d].trace[5] = "handler" /\ conn[d].trace[6] = "access log entry"

(***************************************************************************)
(* Properties of the parameter middlewares (SpecCall, SpecList).           *)
(***************************************************************************)
FieldsCalled == fn = "FieldLimitingParams" /\ returned.called

RawFields == QueryGet(args.query, "fields")

\* C29: FieldLimitingParams enables field limiting whenever the fields
\* parameter provides at least one value that is not empty, so fields=,name
\* limits the response to its name field, and disables it only when the
\* parameter is absent or provides no value at all.
C29_FieldLimitingIffSomeValue ==
    FieldsCalled =>
        /\ returned.params.FieldLimitingEnabled <=>
              \E i \in 1..Len(RawFields) : RawFields[i] # ","
        /\ RawFields = <<",", "name">> =>
              returned.responseJSON =
                  <<[key |-> "name", value |-> <<[text |-> "Bulbasaur"]>>]>>

\* C30: in every list request that reaches answerWithListJSON through the
\* pipeline, pagination.PerPage is not zero, whatever the raw per_page is,
\* so the division and the modulo of lastPage do not fault and the handler
\* answers.
C30_PerPageNonZero ==
    /\ listCtx.listOK => ListPagination.PerPage # 0
    /\ listPc = "done" /\ listLog = Nil =>
          /\ listW.status = StatusOK
          /\ ListLink.last.query # <<>>

C30_Witness ==
    /\ listPc = "done"
    /\ QueryGet(listR.URL.query, "per_page") = <<"0">>
    /\ ListPagination.PerPage = DefaultPerPage
    /\ listLog = Nil
    /\ listW.status = StatusOK
    /\ listTable > 0

====
